---- MODULE Spec2Model ----
(***************************************************************************)
(* Extension registry / dispatcher (network/src/client.rs, Client) and the *)
(* timer dispatch handler (network/src/timer.rs, Handler) of CodeChain.    *)
(*                                                                         *)
(* Every Client method takes the `extensions` RwLock for its whole body    *)
(* and every Handler method takes the `timer` Mutex for its whole match    *)
(* arm, so each method is one atomic action.  What a method does to the    *)
(* outside (extension callbacks, calls into the IO timer facility) is      *)
(* recorded, in program order, in last.calls; each call carries the locks  *)
(* the calling thread holds and the allocator table as it stands at the    *)
(* moment of the call.                                                     *)
(*                                                                         *)
(* panic! / expect() end the process: once `panicked` is set no action is  *)
(* enabled.                                                                *)
(*                                                                         *)
(* ClientSpec runs the registry and its dispatch methods, TimerSpec the    *)
(* timer handler against the IO timer facility (whose register and clear   *)
(* calls may return an error) with the registry already built, and         *)
(* TimerHistorySpec the same handler with the history of the timers of     *)
(* "e1" recorded (armed, binding); TimerReuseSpec records the age of the   *)
(* fired-token events in flight instead (stale).  ApiSpec runs the         *)
(* ClientApi objects                                                       *)
(* (network/src/client.rs, impl Api for ClientApi) against the two         *)
(* channels, whose send may return an error, while the Client and then     *)
(* the extensions are dropped.  Spec is all of them together.  The         *)
(* allocator TimerInfo and the Client's timer reports are not among the    *)
(* sources and follow the specification text.                              *)
(***************************************************************************)
EXTENDS Integers, Sequences, FiniteSets, TLC

\* ---------------------------------------------------------------- bounds
\* timer.rs:66 sets MAX_TIMERS to 100; the model scales the pool down.
MAX_TIMERS == 2
\* message callbacks counted per extension before on_message stops being called
MaxCalls == 2

\* messages the two channels hold together before the Api stops being called
MaxQueue == 2

\* ------------------------------------------------------------- constants
FIRST_TIMER_TOKEN == 0
LAST_TIMER_TOKEN == FIRST_TIMER_TOKEN + MAX_TIMERS

\* Extension names a caller may use, the extension objects that exist and the
\* name() of each: x1 and x3 both claim "e1".
Names == {"e1", "e2"}
Exts == {"x1", "x2", "x3"}
NoExt == "none"
name_of(x) == IF x = "x2" THEN "e2" ELSE "e1"
NodeIds == {1, 5}
TimerIds == {0, 1}

\* The logical timers the extensions ask for: "e1" uses ids 0 and 1, "e2" id 0.
TimerKeys == {<<"e1", 0>>, <<"e1", 1>>, <<"e2", 0>>}
\* The timers whose history is followed: the two of the registered "e1".
HistoryKeys == {<<"e1", 0>>, <<"e1", 1>>}

\* The slots TimerInfo::new(FIRST_TIMER_TOKEN, MAX_TIMERS) manages.
Tokens == FIRST_TIMER_TOKEN .. (FIRST_TIMER_TOKEN + MAX_TIMERS - 1)
Free == [name |-> "", timer_id |-> -1, once |-> FALSE]

VARIABLES
  extensions,   \* Client.extensions: name -> extension object, or NoExt
  messages,     \* per extension object: on_message callbacks it has seen
  addressed,    \* per name: on_message calls made while the name was registered
  timer,        \* Handler.timer (TimerInfo): token -> bound triple, or Free
  io,           \* IO timer facility: token -> "none" | "recurring" | "once"
  fired,        \* fired-token events the IO facility has emitted, not yet handled
  panicked,     \* a panic!/expect() has ended the process
  last,         \* the last method run: its arguments, result and outside calls
  api,          \* extension objects that have been handed a ClientApi
  dropped,      \* extension objects whose last strong reference is gone
  p2p_channel,  \* messages accepted by the transport channel, oldest first
  timer_channel,\* messages accepted by the timer channel, oldest first
  armed,        \* per logical timer: what the handler last did about it
  binding,      \* per token: how the arming that last bound its slot ended
  stale         \* tokens whose event in flight is older than their slot's binding

\* The ClientApi side, and the history of the timer handler.
api_vars == <<api, dropped, p2p_channel, timer_channel>>
hist_vars == <<armed, binding, stale>>

vars == <<extensions, messages, addressed, timer, io, fired, panicked, last,
          api, dropped, p2p_channel, timer_channel, armed, binding, stale>>

\* One call out of the core: an extension callback (to = extension object) or a
\* call into the IO facility (to = "io").
Call(fn, to, name, arg, why, held, tbl) ==
  [fn |-> fn, to |-> to, name |-> name, arg |-> arg, why |-> why,
   held |-> held, timer |-> tbl]

\* streak: for a timeout, how many timeouts of that token the handler has now
\* dispatched in a row (counted to 2); 0 for every other method.
Last(op, name, arg, result, calls) ==
  [op |-> op, name |-> name, arg |-> arg, result |-> result, calls |-> calls,
   streak |-> 0]

\* Number of calls of `fn` made to `to` in a sequence of calls.
Count(calls, fn, to) ==
  Cardinality({i \in 1..Len(calls) : calls[i].fn = fn /\ calls[i].to = to})

Init ==
  /\ extensions = [n \in Names |-> NoExt]
  /\ messages = [x \in Exts |-> 0]
  /\ addressed = [n \in Names |-> 0]
  /\ timer = [t \in Tokens |-> Free]
  /\ io = [t \in Tokens |-> "none"]
  /\ fired = {}
  /\ panicked = FALSE
  /\ last = Last("new", "", -1, "ok", <<>>)
  /\ api = {}
  /\ dropped = {}
  /\ p2p_channel = <<>>
  /\ timer_channel = <<>>
  /\ armed = [k \in HistoryKeys |-> "no"]
  /\ binding = [t \in Tokens |-> "none"]
  /\ stale = {}

\* ------------------------------------------------------------- Client
\* HashMap::insert: binds the name to the new value and returns the old one.
insert_extension(exts, x) == [exts EXCEPT ![name_of(x)] = x]

\* (mutant) the duplicate is accepted: the new binding replaces the old one.
register_extension_no_panic(x) ==
  /\ ~panicked
  /\ extensions' = insert_extension(extensions, x)
  /\ panicked' = FALSE
  /\ last' = Last("register_extension", name_of(x), -1, "ok", <<>>)
  /\ UNCHANGED <<messages, addressed, timer, io, fired, api_vars, hist_vars>>

\* register_extension: insert, then panic if a value was already there.
register_extension(x) ==
  /\ ~panicked
  /\ extensions' = insert_extension(extensions, x)
  /\ panicked' = (extensions[name_of(x)] # NoExt)
  /\ last' = Last("register_extension", name_of(x), -1,
                  IF extensions[name_of(x)] # NoExt THEN "panic" ELSE "ok", <<>>)
  /\ UNCHANGED <<messages, addressed, timer, io, fired, api_vars, hist_vars>>

\* (mutant) an unknown name falls back to some registered extension.
define_method_fallback(exts, fn, name, arg, why, held, tbl) ==
  LET reg == {n \in Names : exts[n] # NoExt}
      n == IF exts[name] # NoExt THEN name ELSE CHOOSE m \in reg : TRUE
  IN IF reg = {} THEN <<>>
     ELSE <<Call(fn, exts[n], n, arg, why, held \cup {"extensions"}, tbl)>>

\* A single-target Client method: the callback goes to the extension registered
\* under `name`; an unknown name is logged and dropped.
define_method(exts, fn, name, arg, why, held, tbl) ==
  IF exts[name] # NoExt
    THEN <<Call(fn, exts[name], name, arg, why, held \cup {"extensions"}, tbl)>>
    ELSE <<>>

\* A broadcast Client method: the callback goes to every extension of the table,
\* in the table's iteration order (`order`: the registered names, in some order).
define_broadcast_method(exts, fn, arg, held, tbl, order) ==
  [i \in 1..Len(order) |->
     Call(fn, exts[order[i]], order[i], arg, "", held \cup {"extensions"}, tbl)]

\* The iteration orders a HashMap holding the registered names may produce.
IterationOrders(exts) ==
  LET reg == {n \in Names : exts[n] # NoExt}
  IN {s \in UNION {[1..k -> reg] : k \in 0..Cardinality(Names)} :
        /\ Len(s) = Cardinality(reg)
        /\ \A i, j \in 1..Len(s) : i # j => s[i] # s[j]}

\* (mutant) the callback goes to every extension of the table.
on_node_added_broadcast(exts, name, id, held, tbl) ==
  LET order == CHOOSE o \in IterationOrders(exts) : TRUE
  IN define_broadcast_method(exts, "on_node_added", id, held, tbl, order)

on_node_added(exts, name, id, held, tbl) ==
  define_method(exts, "on_node_added", name, id, "", held, tbl)

\* (mutant) the loop stops after the first extension.
on_node_removed_first_only(exts, id, held, tbl, order) ==
  define_broadcast_method(exts, "on_node_removed", id, held, tbl,
                          IF order = <<>> THEN order ELSE <<order[1]>>)

on_node_removed(exts, id, held, tbl, order) ==
  define_broadcast_method(exts, "on_node_removed", id, held, tbl, order)

\* (mutant) the message goes to every extension of the table.
on_message_broadcast(exts, name, id, held, tbl) ==
  LET order == CHOOSE o \in IterationOrders(exts) : TRUE
  IN define_broadcast_method(exts, "on_message", id, held, tbl, order)

on_message(exts, name, id, held, tbl) ==
  IF exts[name] # NoExt
    THEN <<Call("on_message", exts[name], name, id, "", held \cup {"extensions"}, tbl)>>
    ELSE <<>>

on_timeout(exts, name, timer_id, held, tbl) ==
  define_method(exts, "on_timeout", name, timer_id, "", held, tbl)

on_local_message(exts, name, held, tbl) ==
  define_method(exts, "on_local_message", name, -1, "", held, tbl)

\* Client::on_timer_set_allowed / on_timer_set_denied are called by timer.rs and
\* are not in client.rs: single-target notifications (spec 4.1).
on_timer_set_allowed(exts, name, timer_id, held, tbl) ==
  define_method(exts, "on_timer_set_allowed", name, timer_id, "", held, tbl)

on_timer_set_denied(exts, name, timer_id, why, held, tbl) ==
  define_method(exts, "on_timer_set_denied", name, timer_id, why, held, tbl)

\* A thread calls Client::on_message(name, id, data).
CallOnMessage(name, id) ==
  /\ ~panicked
  /\ addressed[name] < MaxCalls
  /\ \E calls \in {on_message(extensions, name, id, {}, timer)} :
        /\ messages' = [x \in Exts |-> messages[x] + Count(calls, "on_message", x)]
        /\ last' = Last("on_message", name, id, "ok", calls)
  /\ addressed' = [addressed EXCEPT ![name] = @ + (IF extensions[name] # NoExt THEN 1 ELSE 0)]
  /\ UNCHANGED <<extensions, timer, io, fired, panicked, api_vars, hist_vars>>

\* A thread calls Client::on_node_added(name, id, version).
CallOnNodeAdded(name, id) ==
  /\ ~panicked
  /\ last' = Last("on_node_added", name, id, "ok",
                  on_node_added(extensions, name, id, {}, timer))
  /\ UNCHANGED <<extensions, messages, addressed, timer, io, fired, panicked, api_vars, hist_vars>>

\* A thread calls Client::on_node_removed(id).
CallOnNodeRemoved(id) ==
  /\ ~panicked
  /\ \E order \in IterationOrders(extensions) :
       last' = Last("on_node_removed", "", id, "ok",
                    on_node_removed(extensions, id, {}, timer, order))
  /\ UNCHANGED <<extensions, messages, addressed, timer, io, fired, panicked, api_vars, hist_vars>>

\* A thread calls Client::on_local_message(name, message).
CallOnLocalMessage(name) ==
  /\ ~panicked
  /\ last' = Last("on_local_message", name, -1, "ok",
                  on_local_message(extensions, name, {}, timer))
  /\ UNCHANGED <<extensions, messages, addressed, timer, io, fired, panicked, api_vars, hist_vars>>

\* ------------------------------------------------------------- TimerInfo
\* The allocator (timer_info.rs) is not among the sources; it is modelled from
\* spec 4.3.
info_of(tbl, name, timer_id) ==
  {t \in Tokens : tbl[t].name = name /\ tbl[t].timer_id = timer_id}

free_tokens(tbl) == {t \in Tokens : tbl[t] = Free}

Min(S) == CHOOSE m \in S : \A k \in S : m <= k

\* insert(name, timer_id, once): the first free slot, or an error; err = "" is Ok.
insert(tbl, name, timer_id, once) ==
  IF info_of(tbl, name, timer_id) # {}
    THEN [err |-> "DuplicatedTimerId", token |-> -1, table |-> tbl]
  ELSE IF free_tokens(tbl) = {}
    THEN [err |-> "NoSpace", token |-> -1, table |-> tbl]
  ELSE LET token == Min(free_tokens(tbl))
       IN [err |-> "", token |-> token,
           table |-> [tbl EXCEPT ![token] =
                        [name |-> name, timer_id |-> timer_id, once |-> once]]]

\* get_info(token): the bound triple, or Free for None.
get_info(tbl, token) == IF token \in Tokens THEN tbl[token] ELSE Free

\* remove_by_token(token): absent token is a no-op.
remove_by_token(tbl, token) ==
  IF token \in Tokens THEN [tbl EXCEPT ![token] = Free] ELSE tbl

\* remove_by_info(name, timer_id): the token (-1 for None) and the table after.
remove_by_info(tbl, name, timer_id) ==
  IF info_of(tbl, name, timer_id) = {}
    THEN [token |-> -1, table |-> tbl]
    ELSE LET token == CHOOSE t \in info_of(tbl, name, timer_id) : TRUE
         IN [token |-> token, table |-> [tbl EXCEPT ![token] = Free]]

\* ------------------------------------------------------------- Handler
\* What a Handler method leaves behind.
Outcome(tbl, ios, result, calls) ==
  [timer |-> tbl, io |-> ios, result |-> result, calls |-> calls]

\* The handler's call of a Client method, then what the Client does with it.
Report(fn, name, timer_id, why, tbl) ==
  <<Call(fn, "client", name, timer_id, why, {"timer"}, tbl)>>

\* (mutant) the extension is notified before a one-shot mapping is removed.
timeout_notify_first(tbl, ios, exts, token) ==
  IF token < FIRST_TIMER_TOKEN \/ token > LAST_TIMER_TOKEN
    THEN Outcome(tbl, ios, "panic", <<>>)
  ELSE LET info == get_info(tbl, token)
           after == IF info.once THEN remove_by_token(tbl, token) ELSE tbl
       IN IF info = Free
            THEN Outcome(tbl, ios, "InvalidTimer", <<>>)
            ELSE Outcome(after, ios, "ok",
                   Report("on_timeout", info.name, info.timer_id, "", tbl)
                   \o on_timeout(exts, info.name, info.timer_id, {"timer"}, tbl))

\* (mutant) every fired timer is removed, one-shot or not.
timeout_always_remove(tbl, ios, exts, token) ==
  IF token < FIRST_TIMER_TOKEN \/ token > LAST_TIMER_TOKEN
    THEN Outcome(tbl, ios, "panic", <<>>)
  ELSE LET info == get_info(tbl, token)
           after == remove_by_token(tbl, token)
       IN IF info = Free
            THEN Outcome(tbl, ios, "InvalidTimer", <<>>)
            ELSE Outcome(after, ios, "ok",
                   Report("on_timeout", info.name, info.timer_id, "", after)
                   \o on_timeout(exts, info.name, info.timer_id, {"timer"}, after))

\* (mutant) the accepted range ends below LAST_TIMER_TOKEN.
timeout_exclusive_range(tbl, ios, exts, token) ==
  IF token < FIRST_TIMER_TOKEN \/ token >= LAST_TIMER_TOKEN
    THEN Outcome(tbl, ios, "panic", <<>>)
  ELSE LET info == get_info(tbl, token)
           after == IF info.once THEN remove_by_token(tbl, token) ELSE tbl
       IN IF info = Free
            THEN Outcome(tbl, ios, "InvalidTimer", <<>>)
            ELSE Outcome(after, ios, "ok",
                   Report("on_timeout", info.name, info.timer_id, "", after)
                   \o on_timeout(exts, info.name, info.timer_id, {"timer"}, after))

\* Handler::timeout: the handler's call of Client::on_timeout, then the callback
\* the Client makes; the arm for a token outside FIRST..LAST is unreachable!().
timeout(tbl, ios, exts, token) ==
  IF token < FIRST_TIMER_TOKEN \/ token > LAST_TIMER_TOKEN
    THEN Outcome(tbl, ios, "panic", <<>>)
  ELSE LET info == get_info(tbl, token)
           after == IF info.once THEN remove_by_token(tbl, token) ELSE tbl
       IN IF info = Free
            THEN Outcome(tbl, ios, "InvalidTimer", <<>>)
            ELSE Outcome(after, ios, "ok",
                   Report("on_timeout", info.name, info.timer_id, "", after)
                   \o on_timeout(exts, info.name, info.timer_id, {"timer"}, after))

\* The arm of Handler::message shared, statement for statement, by SetTimer
\* (register_timer, once = FALSE) and SetTimerOnce (register_timer_once, TRUE).
\* io_ok: whether the IO facility's register call returns Ok.
set_timer_arm(tbl, ios, exts, name, timer_id, once, register, kind, io_ok) ==
  LET r == insert(tbl, name, timer_id, once)
      reg == <<Call(register, "io", name, r.token, "", {"timer"}, r.table)>>
  IN IF r.err = ""
       THEN IF io_ok
              THEN Outcome(r.table, [ios EXCEPT ![r.token] = kind], "ok",
                     reg \o Report("on_timer_set_allowed", name, timer_id, "", r.table)
                     \o on_timer_set_allowed(exts, name, timer_id, {"timer"}, r.table))
              ELSE Outcome(r.table, ios, "err", reg)
     ELSE IF r.err = "DuplicatedTimerId"
       THEN Outcome(r.table, ios, "ok",
              Report("on_timer_set_denied", name, timer_id, "DuplicatedTimerId", r.table)
              \o on_timer_set_denied(exts, name, timer_id, "DuplicatedTimerId",
                                     {"timer"}, r.table))
     ELSE Outcome(r.table, ios, "ok",
              Report("on_timer_set_denied", name, timer_id, "NoMoreTimerToken", r.table)
              \o on_timer_set_denied(exts, name, timer_id, "NoMoreTimerToken",
                                     {"timer"}, r.table))

\* (mutant) arming an active timer re-arms it: the old mapping is dropped first.
message_SetTimer_rearm(tbl, ios, exts, name, timer_id, io_ok) ==
  set_timer_arm(remove_by_info(tbl, name, timer_id).table, ios, exts, name, timer_id,
                FALSE, "register_timer", "recurring", io_ok)

\* (mutant) a full pool is no obstacle: the first slot is evicted for the new timer.
message_SetTimer_evict(tbl, ios, exts, name, timer_id, io_ok) ==
  set_timer_arm(IF free_tokens(tbl) = {} /\ info_of(tbl, name, timer_id) = {}
                  THEN remove_by_token(tbl, FIRST_TIMER_TOKEN) ELSE tbl,
                ios, exts, name, timer_id, FALSE, "register_timer", "recurring", io_ok)

\* (mutant) a recurring timer is armed without the timer_allowed report.
message_SetTimer_unreported(tbl, ios, exts, name, timer_id, io_ok) ==
  LET out == set_timer_arm(tbl, ios, exts, name, timer_id, FALSE, "register_timer",
                           "recurring", io_ok)
      kept == {i \in 1..Len(out.calls) : out.calls[i].fn # "on_timer_set_allowed"}
  IN [out EXCEPT !.calls = IF kept = {} THEN <<>> ELSE <<out.calls[Min(kept)]>>]

message_SetTimer(tbl, ios, exts, name, timer_id, io_ok) ==
  set_timer_arm(tbl, ios, exts, name, timer_id, FALSE, "register_timer", "recurring", io_ok)

\* (mutant) the one-shot arm inserts the timer as a recurring one.
message_SetTimerOnce_recurring(tbl, ios, exts, name, timer_id, io_ok) ==
  set_timer_arm(tbl, ios, exts, name, timer_id, FALSE, "register_timer_once", "once", io_ok)

\* (mutant) the one-shot arm does not see the active binding of the pair and
\* gives it a second slot beside the first.
message_SetTimerOnce_second_slot(tbl, ios, exts, name, timer_id, io_ok) ==
  LET hidden == remove_by_info(tbl, name, timer_id)
      out == set_timer_arm(hidden.table, ios, exts, name, timer_id, TRUE,
                           "register_timer_once", "once", io_ok)
  IN IF hidden.token = -1 THEN out
     ELSE [out EXCEPT !.timer = [@ EXCEPT ![hidden.token] = tbl[hidden.token]]]

message_SetTimerOnce(tbl, ios, exts, name, timer_id, io_ok) ==
  set_timer_arm(tbl, ios, exts, name, timer_id, TRUE, "register_timer_once", "once", io_ok)

\* (mutant) the token is deregistered but the allocator keeps the mapping.
message_ClearTimer_keep_slot(tbl, ios, name, timer_id, io_ok) ==
  LET r == remove_by_info(tbl, name, timer_id)
      clr == <<Call("clear_timer", "io", name, r.token, "", {"timer"}, tbl)>>
  IN IF r.token = -1
       THEN Outcome(tbl, ios, "panic", <<>>)
     ELSE IF io_ok
       THEN Outcome(tbl, [ios EXCEPT ![r.token] = "none"], "ok", clr)
     ELSE Outcome(tbl, ios, "err", clr)

\* (mutant) clearing a timer that is not active is a soft error: nothing happens.
message_ClearTimer_soft(tbl, ios, name, timer_id, io_ok) ==
  LET r == remove_by_info(tbl, name, timer_id)
      clr == <<Call("clear_timer", "io", name, r.token, "", {"timer"}, r.table)>>
  IN IF r.token = -1
       THEN Outcome(tbl, ios, "ok", <<>>)
     ELSE IF io_ok
       THEN Outcome(r.table, [ios EXCEPT ![r.token] = "none"], "ok", clr)
     ELSE Outcome(r.table, ios, "err", clr)

\* ClearTimer: remove_by_info(..).expect(..), then io.clear_timer(token)?.
message_ClearTimer(tbl, ios, name, timer_id, io_ok) ==
  LET r == remove_by_info(tbl, name, timer_id)
      clr == <<Call("clear_timer", "io", name, r.token, "", {"timer"}, r.table)>>
  IN IF r.token = -1
       THEN Outcome(tbl, ios, "panic", <<>>)
     ELSE IF io_ok
       THEN Outcome(r.table, [ios EXCEPT ![r.token] = "none"], "ok", clr)
     ELSE Outcome(r.table, ios, "err", clr)

\* Handler::message on one HandlerMessage taken from the channel.
message(tbl, ios, exts, msg, io_ok) ==
  IF msg.type = "SetTimer"
    THEN message_SetTimer(tbl, ios, exts, msg.extension_name, msg.timer_id, io_ok)
  ELSE IF msg.type = "SetTimerOnce"
    THEN message_SetTimerOnce(tbl, ios, exts, msg.extension_name, msg.timer_id, io_ok)
  ELSE message_ClearTimer(tbl, ios, msg.extension_name, msg.timer_id, io_ok)

HandlerMessages ==
  {[type |-> ty, extension_name |-> k[1], timer_id |-> k[2]] :
     ty \in {"SetTimer", "SetTimerOnce", "ClearTimer"}, k \in TimerKeys}

HistoryMessages == {m \in HandlerMessages : <<m.extension_name, m.timer_id>> \in HistoryKeys}

\* The IO facility call the arm for a message makes, if it gets that far.  io_ok
\* is that call's result: where no call is made there is no error to return.
RegisterOrClear(msg) ==
  IF msg.type = "SetTimer" THEN "register_timer"
  ELSE IF msg.type = "SetTimerOnce" THEN "register_timer_once"
  ELSE "clear_timer"

\* History.  armed: "allowed" once an arming of the pair has been reported
\* allowed, "cleared" once a ClearTimer for it has been processed since, "no"
\* before either.
armed_after(arm, msg, out) ==
  LET k == <<msg.extension_name, msg.timer_id>>
  IN IF k \notin HistoryKeys THEN arm
     ELSE IF msg.type = "ClearTimer"
       THEN IF out.result = "panic" THEN arm ELSE [arm EXCEPT ![k] = "cleared"]
     ELSE IF Count(out.calls, "on_timer_set_allowed", "client") > 0
       THEN [arm EXCEPT ![k] = "allowed"]
     ELSE arm

\* History.  binding of a token whose slot the message has just bound: "leaked"
\* if the IO register call returned an error, else "allowed" if the arming was
\* reported allowed, else "unreported".
binding_after(bnd, tbl, out) ==
  [t \in Tokens |->
     IF tbl[t] = Free /\ out.timer[t] # Free
       THEN IF out.result = "err" THEN "leaked"
            ELSE IF Count(out.calls, "on_timer_set_allowed", "client") > 0 THEN "allowed"
            ELSE "unreported"
       ELSE bnd[t]]

\* The handler processes one message.
HandleMessage(msg, io_ok) ==
  /\ ~panicked
  /\ \E out \in {message(timer, io, extensions, msg, io_ok)} :
        /\ io_ok \/ Count(out.calls, RegisterOrClear(msg), "io") > 0
        /\ timer' = out.timer
        /\ io' = out.io
        /\ panicked' = (out.result = "panic")
        /\ last' = Last(msg.type, msg.extension_name, msg.timer_id, out.result, out.calls)
  /\ UNCHANGED <<extensions, messages, addressed, fired, api_vars, hist_vars>>

\* The same step of the handler, with its history recorded.
HandleMessageRecorded(msg, io_ok) ==
  /\ ~panicked
  /\ \E out \in {message(timer, io, extensions, msg, io_ok)} :
        /\ io_ok \/ Count(out.calls, RegisterOrClear(msg), "io") > 0
        /\ timer' = out.timer
        /\ io' = out.io
        /\ panicked' = (out.result = "panic")
        /\ last' = Last(msg.type, msg.extension_name, msg.timer_id, out.result, out.calls)
        /\ armed' = armed_after(armed, msg, out)
        /\ binding' = binding_after(binding, timer, out)
  /\ UNCHANGED <<extensions, messages, addressed, fired, api_vars, stale>>

\* The IO facility emits a fired-token event for a registered timer; a single-fire
\* registration ends with it.
IoFire(token) ==
  /\ ~panicked
  /\ io[token] # "none"
  /\ fired' = fired \cup {token}
  /\ io' = IF io[token] = "once" THEN [io EXCEPT ![token] = "none"] ELSE io
  /\ UNCHANGED <<extensions, messages, addressed, timer, panicked, last, api_vars, hist_vars>>

\* The handler processes one fired-token event.
HandleTimeout(token) ==
  /\ ~panicked
  /\ token \in fired
  /\ fired' = fired \ {token}
  /\ \E out \in {timeout(timer, io, extensions, token)} :
        /\ timer' = out.timer
        /\ io' = out.io
        /\ panicked' = (out.result = "panic")
        /\ last' = [Last("timeout", "", token, out.result, out.calls) EXCEPT
                      !.streak = IF out.result # "ok" THEN 0
                                 ELSE IF last.op = "timeout" /\ last.arg = token
                                         /\ last.streak >= 1 THEN 2
                                 ELSE 1]
  /\ UNCHANGED <<extensions, messages, addressed, api_vars, hist_vars>>

\* History.  The tokens whose event in flight is stale once the message is
\* processed: those already stale, and every token with an event in flight whose
\* slot the message has just bound to a timer.
stale_after(old, inflight, tbl, out) ==
  old \cup {t \in inflight : tbl[t] = Free /\ out.timer[t] # Free}

\* The three steps of the timer side again, with the age of the events in flight
\* recorded.  The handler processes one message.
HandleMessageTraced(msg, io_ok) ==
  /\ ~panicked
  /\ \E out \in {message(timer, io, extensions, msg, io_ok)} :
        /\ io_ok \/ Count(out.calls, RegisterOrClear(msg), "io") > 0
        /\ timer' = out.timer
        /\ io' = out.io
        /\ panicked' = (out.result = "panic")
        /\ last' = Last(msg.type, msg.extension_name, msg.timer_id, out.result, out.calls)
        /\ stale' = stale_after(stale, fired, timer, out)
  /\ UNCHANGED <<extensions, messages, addressed, fired, api_vars, armed, binding>>

\* The IO facility emits a fired-token event for a registered timer: an event of
\* the registration the token has now.
IoFireTraced(token) ==
  /\ ~panicked
  /\ io[token] # "none"
  /\ fired' = fired \cup {token}
  /\ io' = IF io[token] = "once" THEN [io EXCEPT ![token] = "none"] ELSE io
  /\ stale' = stale \ {token}
  /\ UNCHANGED <<extensions, messages, addressed, timer, panicked, last, api_vars,
                 armed, binding>>

\* The handler processes one fired-token event.
HandleTimeoutTraced(token) ==
  /\ ~panicked
  /\ token \in fired
  /\ fired' = fired \ {token}
  /\ stale' = stale \ {token}
  /\ \E out \in {timeout(timer, io, extensions, token)} :
        /\ timer' = out.timer
        /\ io' = out.io
        /\ panicked' = (out.result = "panic")
        /\ last' = [Last("timeout", "", token, out.result, out.calls) EXCEPT
                      !.streak = IF out.result # "ok" THEN 0
                                 ELSE IF last.op = "timeout" /\ last.arg = token
                                         /\ last.streak >= 1 THEN 2
                                 ELSE 1]
  /\ UNCHANGED <<extensions, messages, addressed, api_vars, armed, binding>>

\* The handler thread calls Client::on_timeout(name, timer_id).
CallOnTimeout(name, timer_id) ==
  /\ ~panicked
  /\ last' = Last("on_timeout", name, timer_id, "ok",
                  on_timeout(extensions, name, timer_id, {}, timer))
  /\ UNCHANGED <<extensions, messages, addressed, timer, io, fired, panicked, api_vars, hist_vars>>

\* ------------------------------------------------------------- ClientApi
\* initialize_extension: looks the name up (the read lock is released before the
\* callback), builds a ClientApi around a weak reference and hands it over.
initialize_extension(exts, name, tbl) ==
  IF exts[name] # NoExt
    THEN <<Call("on_initialize", exts[name], name, -1, "", {}, tbl)>>
    ELSE <<>>

\* Weak::upgrade resolves while a strong reference to the extension exists.
upgrade(gone, x) == x \notin gone

\* What an Api call leaves behind: messages accepted by either channel, result.
Sent(p2p, tmr, result) == [p2p |-> p2p, timer |-> tmr, result |-> result]

Envelope(type, x, arg) == [type |-> type, extension_name |-> name_of(x), arg |-> arg]

\* send: fire and forget; a channel error is logged.  chan_ok: whether the
\* channel accepts the message.
ClientApi_send(gone, x, id, chan_ok) ==
  IF upgrade(gone, x)
    THEN IF chan_ok
           THEN Sent(<<Envelope("SendExtensionMessage", x, id)>>, <<>>, "ok")
           ELSE Sent(<<>>, <<>>, "ok")
    ELSE Sent(<<>>, <<>>, "ok")

\* The body shared by set_timer, set_timer_once and clear_timer:
\* Ok(self.timer_channel.send_sync(..)?) or Err(ExtensionDropped).
timer_call(gone, x, type, timer_id, chan_ok) ==
  IF upgrade(gone, x)
    THEN IF chan_ok
           THEN Sent(<<>>, <<Envelope(type, x, timer_id)>>, "ok")
           ELSE Sent(<<>>, <<>>, "IoError")
    ELSE Sent(<<>>, <<>>, "ExtensionDropped")

ClientApi_set_timer(gone, x, timer_id, chan_ok) ==
  timer_call(gone, x, "SetTimer", timer_id, chan_ok)

ClientApi_set_timer_once(gone, x, timer_id, chan_ok) ==
  timer_call(gone, x, "SetTimerOnce", timer_id, chan_ok)

\* (mutant) clear_timer does not resolve the reference: the name is sent anyway.
ClientApi_clear_timer_unchecked(gone, x, timer_id, chan_ok) ==
  timer_call({}, x, "ClearTimer", timer_id, chan_ok)

ClientApi_clear_timer(gone, x, timer_id, chan_ok) ==
  timer_call(gone, x, "ClearTimer", timer_id, chan_ok)

ClientApi_send_local_message(gone, x, chan_ok) ==
  IF upgrade(gone, x)
    THEN IF chan_ok
           THEN Sent(<<>>, <<Envelope("LocalMessage", x, -1)>>, "ok")
           ELSE Sent(<<>>, <<>>, "ok")
    ELSE Sent(<<>>, <<>>, "ok")

\* A thread calls Client::initialize_extension(name).
InitializeExtension(name) ==
  /\ ~panicked
  /\ api' = IF extensions[name] # NoExt THEN api \cup {extensions[name]} ELSE api
  /\ last' = Last("initialize_extension", name, -1, "ok",
                  initialize_extension(extensions, name, timer))
  /\ UNCHANGED <<extensions, messages, addressed, timer, io, fired, panicked,
                 dropped, p2p_channel, timer_channel, hist_vars>>

\* The Client is dropped: its table gives up the strong references it holds.
DropClient ==
  /\ ~panicked
  /\ \E n \in Names : extensions[n] # NoExt
  /\ extensions' = [n \in Names |-> NoExt]
  /\ UNCHANGED <<messages, addressed, timer, io, fired, panicked, last,
                 api_vars, hist_vars>>

\* The last strong reference to an extension the table does not hold is dropped.
DropExtension(x) ==
  /\ ~panicked
  /\ x \notin dropped
  /\ \A n \in Names : extensions[n] # x
  /\ dropped' = dropped \cup {x}
  /\ UNCHANGED <<extensions, messages, addressed, timer, io, fired, panicked, last,
                 api, p2p_channel, timer_channel, hist_vars>>

\* A holder of the ClientApi built for x calls one of its methods.
ApiCall(op, x, arg, out) ==
  /\ ~panicked
  /\ x \in api
  /\ Len(p2p_channel) + Len(timer_channel) < MaxQueue
  /\ p2p_channel' = p2p_channel \o out.p2p
  /\ timer_channel' = timer_channel \o out.timer
  /\ last' = Last(op, name_of(x), arg, out.result, <<>>)
  /\ UNCHANGED <<extensions, messages, addressed, timer, io, fired, panicked,
                 api, dropped, hist_vars>>

ApiSend(x, id, chan_ok) ==
  \E out \in {ClientApi_send(dropped, x, id, chan_ok)} : ApiCall("send", x, id, out)

ApiSetTimer(x, timer_id, chan_ok) ==
  \E out \in {ClientApi_set_timer(dropped, x, timer_id, chan_ok)} :
    ApiCall("set_timer", x, timer_id, out)

ApiSetTimerOnce(x, timer_id, chan_ok) ==
  \E out \in {ClientApi_set_timer_once(dropped, x, timer_id, chan_ok)} :
    ApiCall("set_timer_once", x, timer_id, out)

ApiClearTimer(x, timer_id, chan_ok) ==
  \E out \in {ClientApi_clear_timer(dropped, x, timer_id, chan_ok)} :
    ApiCall("clear_timer", x, timer_id, out)

ApiSendLocalMessage(x, chan_ok) ==
  \E out \in {ClientApi_send_local_message(dropped, x, chan_ok)} :
    ApiCall("send_local_message", x, -1, out)

\* ------------------------------------------------------------- specifications
\* The registry and its dispatch methods, called in any order by any thread.
ClientNext ==
  \/ \E x \in Exts : register_extension(x)
  \/ \E n \in Names, id \in NodeIds : CallOnMessage(n, id)
  \/ \E n \in Names, id \in NodeIds : CallOnNodeAdded(n, id)
  \/ \E id \in NodeIds : CallOnNodeRemoved(id)
  \/ \E n \in Names : CallOnLocalMessage(n)
  \/ \E n \in Names, id \in TimerIds : CallOnTimeout(n, id)

ClientSpec == Init /\ [][ClientNext]_vars

\* The timer handler and the IO timer facility, after the startup registration
\* phase has registered x1 as "e1"; "e2" stays unknown to the registry.
Registered == [n \in Names |-> IF n = "e1" THEN "x1" ELSE NoExt]

TimerInit ==
  /\ extensions = Registered
  /\ messages = [x \in Exts |-> 0]
  /\ addressed = [n \in Names |-> 0]
  /\ timer = [t \in Tokens |-> Free]
  /\ io = [t \in Tokens |-> "none"]
  /\ fired = {}
  /\ panicked = FALSE
  /\ last = Last("new", "", -1, "ok", <<>>)
  /\ api = {}
  /\ dropped = {}
  /\ p2p_channel = <<>>
  /\ timer_channel = <<>>
  /\ armed = [k \in HistoryKeys |-> "no"]
  /\ binding = [t \in Tokens |-> "none"]
  /\ stale = {}

TimerNext ==
  \/ \E msg \in HandlerMessages, io_ok \in BOOLEAN : HandleMessage(msg, io_ok)
  \/ \E t \in Tokens : IoFire(t)
  \/ \E t \in Tokens : HandleTimeout(t)

TimerSpec == TimerInit /\ [][TimerNext]_vars

\* The timer handler and the IO timer facility again, with the history of the
\* timers of "e1" recorded.
TimerHistoryNext ==
  \/ \E msg \in HistoryMessages, io_ok \in BOOLEAN : HandleMessageRecorded(msg, io_ok)
  \/ \E t \in Tokens : IoFire(t)
  \/ \E t \in Tokens : HandleTimeout(t)

TimerHistorySpec == TimerInit /\ [][TimerHistoryNext]_vars

\* The timer handler and the IO timer facility once more, for the timers of
\* "e1", with the age of the fired-token events in flight recorded.
TimerReuseNext ==
  \/ \E msg \in HistoryMessages, io_ok \in BOOLEAN : HandleMessageTraced(msg, io_ok)
  \/ \E t \in Tokens : IoFireTraced(t)
  \/ \E t \in Tokens : HandleTimeoutTraced(t)

TimerReuseSpec == TimerInit /\ [][TimerReuseNext]_vars

\* The ClientApi objects, from a registry holding x1 as "e1" and x2 as "e2"
\* until the Client and then the extensions are dropped.
BothRegistered == [n \in Names |-> IF n = "e1" THEN "x1" ELSE "x2"]

ApiInit ==
  /\ extensions = BothRegistered
  /\ messages = [x \in Exts |-> 0]
  /\ addressed = [n \in Names |-> 0]
  /\ timer = [t \in Tokens |-> Free]
  /\ io = [t \in Tokens |-> "none"]
  /\ fired = {}
  /\ panicked = FALSE
  /\ last = Last("new", "", -1, "ok", <<>>)
  /\ api = {}
  /\ dropped = {}
  /\ p2p_channel = <<>>
  /\ timer_channel = <<>>
  /\ armed = [k \in HistoryKeys |-> "no"]
  /\ binding = [t \in Tokens |-> "none"]
  /\ stale = {}

ApiNext ==
  \/ \E n \in Names : InitializeExtension(n)
  \/ DropClient
  \/ \E x \in api : DropExtension(x)
  \/ \E x \in Exts, id \in NodeIds, chan_ok \in BOOLEAN : ApiSend(x, id, chan_ok)
  \/ \E x \in Exts, id \in TimerIds, chan_ok \in BOOLEAN : ApiSetTimer(x, id, chan_ok)
  \/ \E x \in Exts, id \in TimerIds, chan_ok \in BOOLEAN : ApiSetTimerOnce(x, id, chan_ok)
  \/ \E x \in Exts, id \in TimerIds, chan_ok \in BOOLEAN : ApiClearTimer(x, id, chan_ok)
  \/ \E x \in Exts, chan_ok \in BOOLEAN : ApiSendLocalMessage(x, chan_ok)

ApiSpec == ApiInit /\ [][ApiNext]_vars

\* The whole node.
Next == ClientNext \/ TimerNext \/ ApiNext

Spec == Init /\ [][Next]_vars

\* ------------------------------------------------------------- properties
\* The extensions of the table.
RegisteredExts == {extensions[n] : n \in Names} \ {NoExt}

\* C1: dispatch isolation.  While registration has not failed, an on_message call
\* to a registered name makes exactly one callback, on_message(peer, ..) on the
\* extension registered under that name, and every extension has seen as many
\* message callbacks as on_message calls were addressed to its registered name.
C1_DispatchIsolation ==
  ~panicked =>
    /\ \A x \in Exts :
         messages[x] = IF extensions[name_of(x)] = x THEN addressed[name_of(x)] ELSE 0
    /\ (last.op = "on_message" /\ extensions[last.name] # NoExt) =>
         /\ Len(last.calls) = 1
         /\ last.calls[1].fn = "on_message"
         /\ last.calls[1].to = extensions[last.name]
         /\ last.calls[1].arg = last.arg

\* e1 and e2 are registered; e1 has had one message, e2 two, the last from peer 5.
C1_Witness ==
  /\ extensions["e1"] = "x1" /\ extensions["e2"] = "x2"
  /\ messages["x1"] = 1 /\ messages["x2"] = 2
  /\ last.op = "on_message" /\ last.name = "e2" /\ last.arg = 5

\* C2: register_extension with a name already in the table panics, with no
\* callback made and the extension being registered (another object than the one
\* in the table) having seen no message; with a new name it returns normally and
\* adds exactly that binding.
C2_DuplicateNameFatal ==
  [][\A x \in Exts : register_extension(x) =>
       IF extensions[name_of(x)] # NoExt
         THEN /\ panicked' /\ last'.result = "panic"
              /\ last'.calls = <<>>
              /\ messages' = messages
              /\ (extensions[name_of(x)] # x => messages'[x] = 0)
         ELSE /\ ~panicked' /\ last'.result = "ok"
              /\ extensions' = [extensions EXCEPT ![name_of(x)] = x]
              /\ extensions[name_of(x)] = NoExt]_vars

\* x3 was registered as "e1" after x1, which had already been sent a message.
C2_Witness ==
  /\ panicked /\ last.op = "register_extension" /\ last.name = "e1"
  /\ extensions["e1"] = "x3" /\ messages["x1"] = 1 /\ extensions["e2"] = "x2"

\* C3 as claimed: one on_node_added call invokes on_node_added once on every
\* extension of the table.
C3_NodeAddedBroadcast ==
  last.op = "on_node_added" =>
    \A x \in RegisteredExts : Count(last.calls, "on_node_added", x) = 1

\* C3, amended: on_node_added(name, id, version) is single-target.  It invokes
\* on_node_added(id, ..) once on the extension registered under `name` and on no
\* other extension, and makes no callback when the name is unknown.
C3_NodeAddedSingleTarget ==
  last.op = "on_node_added" =>
    /\ \A x \in Exts : Count(last.calls, "on_node_added", x) =
                         IF extensions[last.name] = x THEN 1 ELSE 0
    /\ Len(last.calls) = IF extensions[last.name] # NoExt THEN 1 ELSE 0
    /\ \A i \in 1..Len(last.calls) : last.calls[i].arg = last.arg

\* Two extensions are registered and on_node_added("e1", ..) reached x1 alone.
C3_Witness ==
  /\ last.op = "on_node_added" /\ last.name = "e1"
  /\ extensions["e1"] = "x1" /\ extensions["e2"] = "x2"
  /\ Len(last.calls) = 1 /\ last.calls[1].to = "x1"

\* C4: one on_node_removed call invokes on_node_removed(id) exactly once on every
\* extension of the table, on nothing else, and leaves the table unchanged.
C4_NodeRemovedBroadcast ==
  [][\A id \in NodeIds : CallOnNodeRemoved(id) =>
       /\ extensions' = extensions
       /\ \A x \in Exts : Count(last'.calls, "on_node_removed", x) =
                            IF x \in RegisteredExts THEN 1 ELSE 0
       /\ Len(last'.calls) = Cardinality(RegisteredExts)
       /\ \A i \in 1..Len(last'.calls) : last'.calls[i].arg = id]_vars

\* on_node_removed reached both registered extensions.
C4_Witness ==
  /\ last.op = "on_node_removed"
  /\ extensions["e1"] = "x1" /\ extensions["e2"] = "x2"
  /\ Len(last.calls) = 2
  /\ Count(last.calls, "on_node_removed", "x1") = 1
  /\ Count(last.calls, "on_node_removed", "x2") = 1

\* C5: an on_message, on_timeout or on_local_message call addressed to a name
\* that is not in the table makes no callback, changes neither the table nor the
\* callbacks seen, and returns normally.
C5_RoutingMissDropped ==
  [][\A n \in Names :
       (/\ extensions[n] = NoExt
        /\ \/ \E id \in NodeIds : CallOnMessage(n, id)
           \/ \E id \in TimerIds : CallOnTimeout(n, id)
           \/ CallOnLocalMessage(n)) =>
         /\ last'.calls = <<>>
         /\ last'.result = "ok"
         /\ ~panicked'
         /\ extensions' = extensions
         /\ messages' = messages]_vars

\* on_timeout for the unknown "e2" was dropped while x1 is registered as "e1".
C5_Witness ==
  /\ last.op = "on_timeout" /\ last.name = "e2" /\ last.result = "ok"
  /\ extensions["e2"] = NoExt /\ extensions["e1"] = "x1"
  /\ last.calls = <<>> /\ ~panicked

\* What an arming message (SetTimer, SetTimerOnce) asks for.
OnceOf(m) == m.type = "SetTimerOnce"
KindOf(m) == IF OnceOf(m) THEN "once" ELSE "recurring"
RegisterOf(m) == IF OnceOf(m) THEN "register_timer_once" ELSE "register_timer"
InfoOf(m) == [name |-> m.extension_name, timer_id |-> m.timer_id, once |-> OnceOf(m)]

\* The message the last Handler::message invocation processed, and a step in
\* which the handler processes an arming message (which is then LastMessage').
LastMessage == [type |-> last.op, extension_name |-> last.name, timer_id |-> last.arg]
\* Whether the IO call of that invocation returned Ok: the handler returns the
\* call's error, and without an IO call its result is the same either way.
LastIoOk == last.result # "err"
ArmingStep ==
  /\ last'.op \in {"SetTimer", "SetTimerOnce"}
  /\ \E m \in {LastMessage'}, ok \in {LastIoOk'} : HandleMessage(m, ok)

\* The handler called Client method `fn` with (name, timer_id[, why]).
Reported(calls, fn, name, timer_id, why) ==
  \E i \in 1..Len(calls) :
    /\ calls[i].to = "client" /\ calls[i].fn = fn
    /\ calls[i].name = name /\ calls[i].arg = timer_id /\ calls[i].why = why

\* The handler made a call into the IO timer facility.
CalledIo(calls) == \E i \in 1..Len(calls) : calls[i].to = "io"

\* C6 as claimed: on SetTimer / SetTimerOnce, a successful insert is followed by
\* the token's registration with the IO facility (recurring / single-fire) and
\* the timer_allowed report; an active pair is denied as duplicated and a full
\* pool as out of tokens, with no IO call and the allocator unchanged.
C6_TwoPhaseArming ==
  [][\A m \in {LastMessage'} : ArmingStep =>
       IF info_of(timer, m.extension_name, m.timer_id) # {}
         THEN /\ Reported(last'.calls, "on_timer_set_denied", m.extension_name,
                          m.timer_id, "DuplicatedTimerId")
              /\ ~CalledIo(last'.calls) /\ io' = io /\ timer' = timer
       ELSE IF free_tokens(timer) = {}
         THEN /\ Reported(last'.calls, "on_timer_set_denied", m.extension_name,
                          m.timer_id, "NoMoreTimerToken")
              /\ ~CalledIo(last'.calls) /\ io' = io /\ timer' = timer
       ELSE \E t \in free_tokens(timer) :
              /\ timer'[t] = InfoOf(m)
              /\ io'[t] = KindOf(m)
              /\ Reported(last'.calls, "on_timer_set_allowed", m.extension_name,
                          m.timer_id, "")]_vars

\* C7: when the handler processes the firing of a one-shot timer, it reports
\* on_timeout(name, timer_id) and, at the moment of that report and of the
\* extension's on_timeout callback, the token's slot is free and no slot binds
\* (name, timer_id).
C7_OneShotClearedBeforeNotify ==
  [][\A t \in Tokens : (HandleTimeout(t) /\ timer[t] # Free /\ timer[t].once) =>
       /\ Reported(last'.calls, "on_timeout", timer[t].name, timer[t].timer_id, "")
       /\ \A i \in 1..Len(last'.calls) :
            /\ last'.calls[i].fn = "on_timeout"
            /\ last'.calls[i].timer[t] = Free
            /\ info_of(last'.calls[i].timer, timer[t].name, timer[t].timer_id) = {}
       /\ (extensions[timer[t].name] # NoExt =>
             Count(last'.calls, "on_timeout", extensions[timer[t].name]) = 1)
       /\ timer'[t] = Free]_vars

\* x1 has been called back for a one-shot timer whose slot was free by then.
C7_Witness ==
  /\ last.op = "timeout" /\ last.result = "ok"
  /\ Len(last.calls) = 2
  /\ last.calls[2].to = "x1" /\ last.calls[2].fn = "on_timeout"
  /\ last.calls[2].timer[last.arg] = Free
  /\ timer[last.arg] = Free

\* C8: a firing of a recurring timer leaves the whole allocator as it is and
\* reports on_timeout(name, timer_id); the slot of a recurring timer changes only
\* by a ClearTimer for its (name, timer_id), which frees it.
C8_RecurringKeepsMapping ==
  [][\A t \in Tokens : (timer[t] # Free /\ ~timer[t].once) =>
       /\ HandleTimeout(t) =>
            /\ timer' = timer
            /\ last'.result = "ok"
            /\ Reported(last'.calls, "on_timeout", timer[t].name, timer[t].timer_id, "")
            /\ (extensions[timer[t].name] # NoExt =>
                  Count(last'.calls, "on_timeout", extensions[timer[t].name]) = 1)
       /\ timer'[t] # timer[t] =>
            /\ last'.op = "ClearTimer"
            /\ last'.name = timer[t].name /\ last'.arg = timer[t].timer_id
            /\ timer'[t] = Free]_vars

\* A recurring timer has fired twice in a row and is still bound to its token.
C8_Witness ==
  /\ last.op = "timeout" /\ last.result = "ok" /\ last.streak = 2
  /\ timer[last.arg] # Free /\ ~timer[last.arg].once
  /\ Len(last.calls) = 2 /\ last.calls[2].to = "x1"

\* What C9 asks of one arming message: the slot the handler passes to the IO
\* facility was free, now holds exactly the triple asked for, and Handler::timeout
\* on that token finds it: it reports on_timeout(name, timer_id) and removes the
\* slot exactly if the timer is one-shot.
RoundTrip(m) ==
  /\ Len(last'.calls) >= 1
  /\ last'.calls[1].to = "io" /\ last'.calls[1].fn = RegisterOf(m)
  /\ \E t \in free_tokens(timer) :
       /\ last'.calls[1].arg = t
       /\ get_info(timer', t) = InfoOf(m)
       /\ \A u \in Tokens \ {t} : timer'[u] = timer[u]
       /\ \A out \in {timeout(timer', io', extensions', t)} :
             /\ out.result = "ok"
             /\ Reported(out.calls, "on_timeout", m.extension_name, m.timer_id, "")
             /\ (out.timer[t] = Free) = OnceOf(m)

\* C9 as claimed: arming any (name, id) that is not active succeeds and the
\* token looks up the same (name, id, once).
C9_InsertAlwaysSucceeds ==
  [][\A m \in {LastMessage'} :
       (info_of(timer, m.extension_name, m.timer_id) = {} /\ ArmingStep)
         => RoundTrip(m)]_vars

\* C9, amended: arming any (name, id) that is not active, while a slot is free,
\* succeeds and the token looks up the same (name, id, once).
C9_RoundTrip ==
  [][\A m \in {LastMessage'} :
       (/\ info_of(timer, m.extension_name, m.timer_id) = {}
        /\ free_tokens(timer) # {}
        /\ ArmingStep)
         => RoundTrip(m)]_vars

\* A one-shot timer was just armed in the second slot and is looked up there.
C9_Witness ==
  /\ last.op = "SetTimerOnce" /\ last.result = "ok"
  /\ last.calls[1].fn = "register_timer_once"
  /\ last.calls[1].arg = FIRST_TIMER_TOKEN + 1
  /\ get_info(timer, FIRST_TIMER_TOKEN + 1) =
       [name |-> last.name, timer_id |-> last.arg, once |-> TRUE]
  /\ timer[FIRST_TIMER_TOKEN] # Free

\* C10: arming a (name, id) that is active is denied as DuplicatedTimerId,
\* whatever the once flags, with no IO call; the allocator is unchanged, so every
\* token looks up what it did before.
C10_DuplicateDenied ==
  [][\A m \in {LastMessage'} :
       (info_of(timer, m.extension_name, m.timer_id) # {} /\ ArmingStep)
         => /\ last'.result = "ok"
            /\ Reported(last'.calls, "on_timer_set_denied", m.extension_name,
                        m.timer_id, "DuplicatedTimerId")
            /\ ~Reported(last'.calls, "on_timer_set_allowed", m.extension_name,
                         m.timer_id, "")
            /\ ~CalledIo(last'.calls)
            /\ timer' = timer /\ io' = io
            /\ \A t \in Tokens : get_info(timer', t) = get_info(timer, t)]_vars

\* A one-shot arming of an id that is active as a recurring timer was denied,
\* with another timer active beside it.
C10_Witness ==
  /\ last.op = "SetTimerOnce" /\ last.result = "ok"
  /\ Len(last.calls) >= 1
  /\ last.calls[1].fn = "on_timer_set_denied"
  /\ last.calls[1].why = "DuplicatedTimerId"
  /\ \E t \in Tokens : /\ timer[t].name = last.name /\ timer[t].timer_id = last.arg
                       /\ ~timer[t].once
  /\ free_tokens(timer) = {}

\* The logical timers active in an allocator table, and every pair a caller may
\* name.
active_timers(tbl) ==
  {<<tbl[t].name, tbl[t].timer_id>> : t \in Tokens \ free_tokens(tbl)}
Pairs == Names \X TimerIds

\* C11: the capacity is exactly MAX_TIMERS.  The number of active logical timers
\* never exceeds MAX_TIMERS; arming a pair that is not active binds it (one more
\* active timer) whenever fewer than MAX_TIMERS are active, and is denied for
\* lack of a token, with the table unchanged and no IO call, when exactly
\* MAX_TIMERS are active.
C11_CapacityExact ==
  [][/\ timer' # timer => Cardinality(active_timers(timer')) <= MAX_TIMERS
     /\ \A m \in {LastMessage'} :
          (info_of(timer, m.extension_name, m.timer_id) = {} /\ ArmingStep) =>
            \A n \in {Cardinality(active_timers(timer))} :
            IF n < MAX_TIMERS
              THEN /\ info_of(timer', m.extension_name, m.timer_id) # {}
                   /\ Cardinality(active_timers(timer')) = n + 1
                   /\ ~Reported(last'.calls, "on_timer_set_denied", m.extension_name,
                                m.timer_id, "NoMoreTimerToken")
              ELSE /\ n = MAX_TIMERS
                   /\ Reported(last'.calls, "on_timer_set_denied", m.extension_name,
                               m.timer_id, "NoMoreTimerToken")
                   /\ ~CalledIo(last'.calls)
                   /\ timer' = timer /\ io' = io]_vars

\* With MAX_TIMERS timers active, arming one more pair was denied for lack of a
\* token.
C11_Witness ==
  /\ last.op \in {"SetTimer", "SetTimerOnce"} /\ last.result = "ok"
  /\ Len(last.calls) >= 1 /\ last.calls[1].why = "NoMoreTimerToken"
  /\ info_of(timer, last.name, last.arg) = {}
  /\ Cardinality(active_timers(timer)) = MAX_TIMERS

\* A step in which the handler removes the entry bound to token t: a ClearTimer
\* for its pair, or the firing of the one-shot timer it holds.
RemovalStep(t) ==
  /\ timer[t] # Free
  /\ \/ /\ last'.op = "ClearTimer"
        /\ last'.name = timer[t].name /\ last'.arg = timer[t].timer_id
        /\ \E m \in {LastMessage'}, ok \in {LastIoOk'} : HandleMessage(m, ok)
     \/ /\ timer[t].once
        /\ last'.op = "timeout" /\ last'.arg = t
        /\ HandleTimeout(t)

\* The tokens such a step can be about, read off the handler's last invocation.
RemovedTokens ==
  IF last'.op = "ClearTimer" THEN info_of(timer, last'.name, last'.arg)
  ELSE IF last'.op = "timeout" THEN {last'.arg} \cap Tokens
  ELSE {}

\* C12: removing an active entry, by (name, id) or by token, frees its token.
\* After the removal get_info on the token finds nothing, and an insert of any
\* other pair that is not active (here with the once flag of the timer removed)
\* succeeds, into the first free slot: into that same token whenever no lower
\* slot is free, so always when the pool was full.
C12_RemovalFreesToken ==
  [][\A t \in RemovedTokens : RemovalStep(t) =>
       /\ get_info(timer', t) = Free
       /\ \A free \in {free_tokens(timer')} :
            /\ t \in free
            /\ (free_tokens(timer) = {} => free = {t})
            /\ \A k \in (Pairs \ active_timers(timer')) \ {<<timer[t].name, timer[t].timer_id>>} :
                 \A r \in {insert(timer', k[1], k[2], timer[t].once)} :
                    /\ r.err = ""
                    /\ r.token = Min(free)
                    /\ get_info(r.table, r.token) =
                         [name |-> k[1], timer_id |-> k[2], once |-> timer[t].once]]_vars

\* The pool was full; ClearTimer has freed the first token while the second is
\* still bound.
C12_Witness ==
  /\ last.op = "ClearTimer" /\ last.result = "ok"
  /\ Len(last.calls) = 1 /\ last.calls[1].arg = FIRST_TIMER_TOKEN
  /\ free_tokens(timer) = {FIRST_TIMER_TOKEN}
  /\ MAX_TIMERS >= 2

C16_Bijection ==
  /\ \A t, u \in Tokens :
       (/\ timer[t] # Free /\ timer[u] # Free
        /\ timer[t].name = timer[u].name /\ timer[t].timer_id = timer[u].timer_id)
         => t = u
  /\ \A t \in Tokens \ free_tokens(timer) :
       <<timer[t].name, timer[t].timer_id>> \in TimerKeys
  /\ Cardinality(active_timers(timer)) = Cardinality(Tokens \ free_tokens(timer))

\* The first token has been reused by a one-shot timer while the second is bound
\* to another timer and a fired-token event is still to be handled.
C16_Witness ==
  /\ last.op = "SetTimerOnce" /\ last.result = "ok"
  /\ last.calls[1].to = "io" /\ last.calls[1].arg = FIRST_TIMER_TOKEN
  /\ free_tokens(timer) = {}
  /\ fired # {}

\* The locks of the core: the allocator's mutex and the registry table's RwLock.
CoreLocks == {"timer", "extensions"}

\* C15 as claimed: whenever a thread is inside an extension callback or a call
\* into the IO timer facility, it holds neither the allocator lock nor the
\* registry-table lock.
C15_LockDiscipline ==
  \A i \in 1..Len(last.calls) :
    last.calls[i].to # "client" => last.calls[i].held \cap CoreLocks = {}

\* C19 as claimed: every SetTimer / SetTimerOnce the handler processes produces
\* exactly one report, timer_allowed or timer_denied, and when the handler has
\* finished a message, every token whose slot or registration the message
\* touched is active in the allocator exactly if it is registered with the IO
\* facility: no slot is left allocated without a registration.
C19_OneReportAndIoInSync ==
  [][\A m \in {LastMessage'} :
       (/\ last'.op \in {"SetTimer", "SetTimerOnce", "ClearTimer"}
        /\ \E ok \in {LastIoOk'} : HandleMessage(m, ok)) =>
         /\ (last'.op # "ClearTimer" =>
               Count(last'.calls, "on_timer_set_allowed", "client")
                 + Count(last'.calls, "on_timer_set_denied", "client") = 1)
         /\ \A t \in Tokens :
              (timer'[t] # timer[t] \/ io'[t] # io[t]) =>
                ((timer'[t] # Free) <=> (io'[t] # "none"))]_vars

\* C17 as claimed: once the handler has processed ClearTimer{name, timer_id}, no
\* on_timeout(name, timer_id) is dispatched until a later arming of the pair has
\* been reported allowed, whatever fired-token events are delivered meanwhile.
C17_ClearedStaysSilent ==
  [][\A t \in Tokens : HandleTimeout(t) =>
       \A k \in HistoryKeys :
         armed[k] = "cleared" => ~Reported(last'.calls, "on_timeout", k[1], k[2], "")]_vars

\* A step in which the handler processes an arming message whose IO register call
\* returns Ok: a successful arming.
SuccessfulArming ==
  /\ last'.op \in {"SetTimer", "SetTimerOnce"}
  /\ \E m \in {LastMessage'}, ok \in {LastIoOk'} : HandleMessageRecorded(m, ok)
  /\ last'.result = "ok"
  /\ timer' # timer

\* C18: allowed precedes firing.  A successful arming binds a slot that was free,
\* and reports timer_allowed(name, timer_id) after the IO registration, in the
\* same handler invocation, under the timer lock that Handler::timeout needs, and
\* dispatches no on_timeout itself; and whenever the handler dispatches
\* on_timeout(name, timer_id) from a slot bound by a successful arming, the
\* timer_allowed report of that arming has been emitted.
C18_AllowedPrecedesFiring ==
  [][/\ \A t \in Tokens :
          (HandleTimeout(t) /\ last'.calls # <<>>) =>
            /\ timer[t] # Free
            /\ binding[t] \in {"allowed", "leaked"}
            /\ binding[t] = "allowed" =>
                 /\ armed[<<timer[t].name, timer[t].timer_id>>] = "allowed"
                 /\ Reported(last'.calls, "on_timeout", timer[t].name, timer[t].timer_id, "")
     /\ \A m \in {LastMessage'} : SuccessfulArming =>
          /\ Len(last'.calls) >= 2
          /\ last'.calls[1].to = "io" /\ last'.calls[1].fn = RegisterOf(m)
          /\ timer[last'.calls[1].arg] = Free
          /\ timer'[last'.calls[1].arg] = InfoOf(m)
          /\ last'.calls[2].to = "client" /\ last'.calls[2].fn = "on_timer_set_allowed"
          /\ last'.calls[2].name = m.extension_name /\ last'.calls[2].arg = m.timer_id
          /\ binding'[last'.calls[1].arg] = "allowed"
          /\ \A i \in 1..Len(last'.calls) :
               /\ "timer" \in last'.calls[i].held
               /\ last'.calls[i].fn # "on_timeout"]_vars

\* A timer armed and reported allowed has fired and x1 has been called back,
\* after the other timer of "e1" was cleared and a timer's IO registration had
\* failed.
C18_Witness ==
  /\ last.op = "timeout" /\ last.result = "ok"
  /\ Len(last.calls) = 2 /\ last.calls[2].to = "x1" /\ last.calls[2].fn = "on_timeout"
  /\ binding[last.arg] = "allowed"
  /\ armed[<<last.calls[1].name, last.calls[1].arg>>] = "allowed"
  /\ \E k \in HistoryKeys : armed[k] = "cleared"
  /\ \E t \in Tokens : binding[t] = "leaked"

\* C20 as claimed: a ClearTimer for a timer whose arming was reported allowed,
\* with no ClearTimer for it processed since, never reaches the "Unexpected timer
\* id" abort, recurring or one-shot, however the clear interleaves with firings.
C20_OwnClearNeverFatal ==
  [][\A m \in {LastMessage'} :
       (/\ last'.op = "ClearTimer"
        /\ <<m.extension_name, m.timer_id>> \in HistoryKeys
        /\ \E ok \in {LastIoOk'} : HandleMessageRecorded(m, ok)
        /\ armed[<<m.extension_name, m.timer_id>>] = "allowed")
         => (~panicked' /\ last'.result # "panic")]_vars

\* The Api methods, and a step in which a holder of x's Api calls one of them.
TimerOps == {"set_timer", "set_timer_once", "clear_timer"}
ApiOps == {"send", "send_local_message"} \cup TimerOps
ApiArgs == NodeIds \cup TimerIds \cup {-1}
ApiStep(op, x, arg, chan_ok) ==
  \/ op = "send" /\ arg \in NodeIds /\ ApiSend(x, arg, chan_ok)
  \/ op = "set_timer" /\ arg \in TimerIds /\ ApiSetTimer(x, arg, chan_ok)
  \/ op = "set_timer_once" /\ arg \in TimerIds /\ ApiSetTimerOnce(x, arg, chan_ok)
  \/ op = "clear_timer" /\ arg \in TimerIds /\ ApiClearTimer(x, arg, chan_ok)
  \/ op = "send_local_message" /\ arg = -1 /\ ApiSendLocalMessage(x, chan_ok)

\* The message each method sends.
MessageType(op) ==
  CASE op = "send" -> "SendExtensionMessage"
    [] op = "set_timer" -> "SetTimer"
    [] op = "set_timer_once" -> "SetTimerOnce"
    [] op = "clear_timer" -> "ClearTimer"
    [] op = "send_local_message" -> "LocalMessage"

\* The step enqueued nothing on any channel.
EnqueuedNothing ==
  p2p_channel' = p2p_channel /\ timer_channel' = timer_channel

\* The step enqueued exactly one message, the method's, tagged with x's name.
EnqueuedOne(op, x, arg) ==
  LET msg == [type |-> MessageType(op), extension_name |-> name_of(x), arg |-> arg]
  IN IF op = "send"
       THEN p2p_channel' = Append(p2p_channel, msg) /\ timer_channel' = timer_channel
       ELSE timer_channel' = Append(timer_channel, msg) /\ p2p_channel' = p2p_channel

\* The degraded call: nothing enqueued, a normal return from send and
\* send_local_message, ExtensionDropped from the three timer calls.
Degrades(op) ==
  /\ EnqueuedNothing
  /\ ~panicked'
  /\ last'.result = IF op \in TimerOps THEN "ExtensionDropped" ELSE "ok"

\* C13 as claimed: an Api call whose weak reference no longer resolves degrades;
\* one whose reference resolves enqueues exactly one message tagged with the
\* extension's name.
C13_ApiDegrades ==
  [][\A op \in {last'.op} \cap ApiOps, x \in Exts, arg \in {last'.arg} \cap ApiArgs,
        chan_ok \in BOOLEAN :
       ApiStep(op, x, arg, chan_ok) =>
         IF x \in dropped THEN Degrades(op) ELSE EnqueuedOne(op, x, arg)]_vars

\* C13, amended: an Api call whose weak reference no longer resolves degrades;
\* one whose reference resolves enqueues exactly one message tagged with the
\* extension's name if the channel accepts it, and if the channel returns an
\* error enqueues nothing, send and send_local_message returning normally and
\* the three timer calls returning the channel's error.
C13_ApiDegradesOrEnqueues ==
  [][\A op \in {last'.op} \cap ApiOps, x \in Exts, arg \in {last'.arg} \cap ApiArgs,
        chan_ok \in BOOLEAN :
       ApiStep(op, x, arg, chan_ok) =>
         IF x \in dropped THEN Degrades(op)
         ELSE IF chan_ok
           THEN EnqueuedOne(op, x, arg) /\ last'.result = "ok" /\ ~panicked'
         ELSE /\ EnqueuedNothing
              /\ ~panicked'
              /\ last'.result = IF op \in TimerOps THEN "IoError" ELSE "ok"]_vars

\* x1 enqueued a timer message while it existed; after it was dropped its
\* clear_timer returned ExtensionDropped and the channels are as they were.
C13_Witness ==
  /\ "x1" \in dropped /\ "x1" \in api
  /\ last.op = "clear_timer" /\ last.name = "e1" /\ last.result = "ExtensionDropped"
  /\ Len(timer_channel) = 1 /\ timer_channel[1].extension_name = "e1"
  /\ p2p_channel = <<>>

\* C22: a register_extension that panics on a duplicate name leaves the registry
\* as it was: the name still bound to the extension registered first, every
\* other binding unchanged.
C22_FailedRegistrationKeepsRegistry ==
  [][\A x \in Exts :
       (extensions[name_of(x)] # NoExt /\ register_extension(x)) =>
         /\ panicked'
         /\ extensions' = extensions]_vars

\* The tokens Handler::timeout accepts, and the tokens an invocation of the
\* handler has passed to the IO facility's register calls.
AcceptedRange == FIRST_TIMER_TOKEN .. LAST_TIMER_TOKEN
IoRegistrations(calls) ==
  {calls[i].arg : i \in {j \in 1..Len(calls) :
                           /\ calls[j].to = "io"
                           /\ calls[j].fn \in {"register_timer", "register_timer_once"}}}

\* C23: in every allocator table the handler produces, Handler::timeout on a
\* token of FIRST_TIMER_TOKEN..LAST_TIMER_TOKEN that the table does not bind
\* (LAST_TIMER_TOKEN is never bound) returns InvalidTimer, makes no call and
\* leaves the allocator as it is; a fired-token
\* event the handler processes for such a token ends that way, without a panic;
\* and every token the handler registers with the IO facility is in that range,
\* so timeout on it does not reach the unreachable arm.
C23_UnmappedFireIsInvalid ==
  [][/\ timer' # timer =>
          \A t \in AcceptedRange : get_info(timer', t) = Free =>
            \A out \in {timeout(timer', io', extensions', t)} :
               /\ out.result = "InvalidTimer"
               /\ out.calls = <<>>
               /\ out.timer = timer'
     /\ \A t \in {last'.arg} \cap Tokens :
          (last'.op = "timeout" /\ timer[t] = Free /\ HandleTimeout(t)) =>
             /\ last'.result = "InvalidTimer"
             /\ last'.calls = <<>>
             /\ timer' = timer
             /\ ~panicked'
     /\ \A t \in IoRegistrations(last'.calls) :
          /\ t \in AcceptedRange
          /\ timeout(timer', io', extensions', t).result # "panic"]_vars

\* A timer of token 0 fired, was cleared while the event was in flight, and the
\* handler has then processed the stale event.
C23_Witness ==
  /\ last.op = "timeout" /\ last.arg = 0 /\ last.result = "InvalidTimer"
  /\ last.calls = <<>>
  /\ timer[0] = Free /\ io[0] = "none" /\ ~panicked

\* C21 as claimed: timeouts are never misattributed under token reuse.  A
\* fired-token event older than the binding its token has now (emitted for a
\* timer cleared or self-cleared since, the slot given to an arming meanwhile)
\* makes the handler dispatch no on_timeout and remove no mapping; so every
\* on_timeout dispatched comes from a firing of the current arming's registration.
C21_NoMisattribution ==
  [][\A t \in {last'.arg} \cap Tokens :
       (last'.op = "timeout" /\ t \in stale /\ HandleTimeoutTraced(t)) =>
          /\ last'.calls = <<>>
          /\ timer' = timer]_vars
====
